---- MODULE Spec2Model ----
(***************************************************************************)
(* A model of get_address.py: parse_dms (DMS text -> signed decimal        *)
(* degrees), get_address_from_coordinates (reverse geocoding through the   *)
(* Google Maps client), process_row (one record -> one result row) and     *)
(* process_coordinates_file (the batch over the rows of a CSV file).       *)
(*                                                                         *)
(* Python values are records [kind, chars, n]:                             *)
(*   kind "none"  : None                     kind "nan"  : float NaN       *)
(*   kind "str"   : a str, chars its characters                            *)
(*   kind "num"   : an int/float read from the CSV, n its value            *)
(*   kind "float" : a float computed by parse_dms, n its value in units of *)
(*                  1/(3600 * Scale) degree (fixed point, exact)           *)
(*   kind "absent": the key is not in the row (only inside a record)       *)
(* A character is a one-character string; the two Unicode marks are the    *)
(* tokens "PRIME" and "DPRIME", the tab is "TAB".                          *)
(***************************************************************************)
EXTENDS Integers, Sequences, FiniteSets, TLC

\* ------------------------------------------------------------------ bounds
\* the longest batch of records
MaxRecords == 2
\* extra whitespace characters put where the pattern allows any number
MaxPad == 1
\* digits after the decimal point of the seconds
MaxFracDigits == 2

\* ------------------------------------------------------------------ values
NoneVal == [kind |-> "none", chars |-> <<>>, n |-> 0]
NaNVal == [kind |-> "nan", chars |-> <<>>, n |-> 0]
AbsentVal == [kind |-> "absent", chars |-> <<>>, n |-> 0]
Str(cs) == [kind |-> "str", chars |-> cs, n |-> 0]
Num(k) == [kind |-> "num", chars |-> <<>>, n |-> k]
Float(k) == [kind |-> "float", chars |-> <<>>, n |-> k]

RECURSIVE Pow10(_)
Pow10(k) == IF k = 0 THEN 1 ELSE 10 * Pow10(k - 1)

\* fixed-point scale of the seconds: S seconds are the integer S * Scale
Scale == Pow10(MaxFracDigits)

\* pd.isna(x) on a scalar
isna(v) == v.kind \in {"none", "nan"}

\* isinstance(x, str)
isinstance_str(v) == v.kind = "str"

\* bool(x): the truth value Python gives a scalar
truthy(v) ==
    CASE v.kind = "str" -> v.chars # <<>>
      [] v.kind = "num" -> v.n # 0
      [] v.kind = "float" -> v.n # 0
      [] v.kind = "nan" -> TRUE
      [] OTHER -> FALSE

\* ------------------------------------------------------------------ characters
Digits == <<"0", "1", "2", "3", "4", "5", "6", "7", "8", "9">>

IsDigit(c) == \E d \in 1..10 : Digits[d] = c

DigitValue(c) == (CHOOSE d \in 1..10 : Digits[d] = c) - 1

\* \s
IsWs(c) == c \in {" ", "TAB"}

\* str.upper() on the letters the pattern names
Upper(c) ==
    CASE c = "n" -> "N"
      [] c = "s" -> "S"
      [] c = "e" -> "E"
      [] c = "w" -> "W"
      [] c = "d" -> "D"
      [] c = "g" -> "G"
      [] OTHER -> c

\* ['′] and ["″]
MinuteMarks == {"'", "PRIME"}
SecondMarks == {"\"", "DPRIME"}

At(s, p) == IF p >= 1 /\ p <= Len(s) THEN s[p] ELSE "EOS"

Sub(s, a, b) == [k \in 1..(b - a + 1) |-> s[a + k - 1]]

\* the first position from p on that does not hold a whitespace character
SkipWs(s, p) ==
    IF p > Len(s) THEN p
    ELSE CHOOSE q \in p..(Len(s) + 1) :
            /\ \A k \in p..(q - 1) : IsWs(s[k])
            /\ ~IsWs(At(s, q))

\* the first position from p on that does not hold a digit
SkipDigits(s, p) ==
    IF p > Len(s) THEN p
    ELSE CHOOSE q \in p..(Len(s) + 1) :
            /\ \A k \in p..(q - 1) : IsDigit(s[k])
            /\ ~IsDigit(At(s, q))

\* str.strip()
strip(s) ==
    IF \A k \in 1..Len(s) : IsWs(s[k]) THEN <<>>
    ELSE LET a == CHOOSE i \in 1..Len(s) :
                     ~IsWs(s[i]) /\ \A k \in 1..(i - 1) : IsWs(s[k])
             b == CHOOSE j \in 1..Len(s) :
                     ~IsWs(s[j]) /\ \A k \in (j + 1)..Len(s) : IsWs(s[k])
         IN Sub(s, a, b)

\* re.match(pattern, t, re.VERBOSE | re.IGNORECASE): adjacent pieces of the
\* pattern have disjoint first characters, so the greedy scan is the match
re_match(t) ==
    LET p0 == SkipWs(t, 1)
        p1 == SkipDigits(t, p0)
        p2 == SkipWs(t, p1)
        p3 == p2 + 3
        p4 == SkipWs(t, p3)
        p5 == SkipDigits(t, p4)
        p6 == SkipWs(t, p5)
        p7 == p6 + 1
        p8 == SkipWs(t, p7)
        p9 == SkipDigits(t, p8)
        p10 == IF At(t, p9) = "." /\ IsDigit(At(t, p9 + 1))
               THEN SkipDigits(t, p9 + 1) ELSE p9
        p11 == SkipWs(t, p10)
        p12 == p11 + 1
        p13 == SkipWs(t, p12)
        p14 == SkipWs(t, p13 + 1)
        ok == /\ p1 > p0
              /\ Upper(At(t, p2)) = "D"
              /\ Upper(At(t, p2 + 1)) = "E"
              /\ Upper(At(t, p2 + 2)) = "G"
              /\ p4 > p3
              /\ p5 > p4
              /\ At(t, p6) \in MinuteMarks
              /\ p8 > p7
              /\ p9 > p8
              /\ At(t, p11) \in SecondMarks
              /\ p13 > p12
              /\ Upper(At(t, p13)) \in {"N", "S", "E", "W"}
              /\ p14 = Len(t) + 1
    IN IF ok
       THEN [matched |-> TRUE,
             groups |-> <<Sub(t, p0, p1 - 1), Sub(t, p4, p5 - 1),
                          Sub(t, p8, p10 - 1), <<t[p13]>>>>]
       ELSE [matched |-> FALSE, groups |-> <<>>]

\* int(text) on a string of digits
RECURSIVE int(_)
int(cs) ==
    IF cs = <<>> THEN 0
    ELSE 10 * int(SubSeq(cs, 1, Len(cs) - 1)) + DigitValue(cs[Len(cs)])

\* float(text) on digits with an optional fraction, times Scale
float(cs) ==
    LET dot == IF \E k \in 1..Len(cs) : cs[k] = "."
               THEN CHOOSE k \in 1..Len(cs) : cs[k] = "." ELSE Len(cs) + 1
        ip == SubSeq(cs, 1, dot - 1)
        fr == SubSeq(cs, dot + 1, Len(cs))
    IN int(ip) * Scale + int(fr) * Pow10(MaxFracDigits - Len(fr))

\* ------------------------------------------------------------------ results
Msg(text, arg) == [text |-> text, arg |-> arg]
NoMsg == Msg("", NoneVal)

Return(v) == [raised |-> FALSE, value |-> v, msg |-> NoMsg]
Raise(m) == [raised |-> TRUE, value |-> NoneVal, msg |-> m]

\* a guard that also lets the empty string through as "no value"
parse_dms_guard_falsy(dms_str) ==
    isna(dms_str) \/ ~isinstance_str(dms_str) \/ ~truthy(dms_str)

\* line 14: the inputs for which parse_dms returns None
parse_dms_guard(dms_str) == isna(dms_str) \/ ~isinstance_str(dms_str)

\* the sign without direction.upper(): a lower-case s or w is not negated
direction_sign_cased(direction) == IF direction \in {"S", "W"} THEN -1 ELSE 1

\* lines 36-37: the sign of the hemisphere letter
direction_sign(direction) == IF Upper(direction) \in {"S", "W"} THEN -1 ELSE 1

\* lines 27-33: degrees + minutes / 60 + seconds / 3600, in 1/(3600*Scale) degree
to_decimal(degrees, minutes, seconds) ==
    int(degrees) * 3600 * Scale + int(minutes) * 60 * Scale + float(seconds)

parse_dms(dms_str) ==
    IF parse_dms_guard(dms_str) THEN Return(NoneVal)
    ELSE LET match == re_match(strip(dms_str.chars))
         IN IF ~match.matched
            THEN Raise(Msg("Invalid DMS format: ", dms_str))
            ELSE LET g == match.groups
                 IN Return(Float(direction_sign(g[4][1])
                                 * to_decimal(g[1], g[2], g[3])))

\* ------------------------------------------------------------------ inputs
\* the text Python writes for a non-negative integer
RECURSIVE ToDigits(_)
ToDigits(k) ==
    IF k < 10 THEN <<Digits[k + 1]>>
    ELSE ToDigits(k \div 10) \o <<Digits[(k % 10) + 1]>>

\* seconds are [ip, fr]: the integer part and the digits after the point
SecText(S) ==
    ToDigits(S.ip)
    \o (IF S.fr = <<>> THEN <<>>
        ELSE <<".">> \o [k \in 1..Len(S.fr) |-> Digits[S.fr[k] + 1]])

Spaces(k) == [j \in 1..k |-> " "]
Gap(k) == <<" ">> \o [j \in 1..k |-> "TAB"]

DegValues == {0, 37, 122}
MinValues == {0, 36, 75}
FracValues == UNION {[1..k -> {0, 5}] : k \in 0..MaxFracDigits}
SecValues == {[ip |-> i, fr |-> f] : i \in {0, 75}, f \in FracValues}
Hemispheres == {"N", "S", "E", "W", "n", "s", "e", "w"}
Styles == [pad : 0..MaxPad, marks : {"ascii", "unicode"}, upper : BOOLEAN]
Mutations == {"no_degrees", "no_deg", "no_minutes", "no_minmark", "no_seconds",
              "no_secmark", "no_dir", "lead_x", "trail_x", "no_gap",
              "dot_nofrac", "frac_minutes", "neg", "bad_dir"}

\* the DMS text of D deg M' S" H in a style, with one defect when mut is not "none"
Write(g) ==
    LET k == g.style.pad
        dd == IF g.mut = "no_degrees" THEN <<>> ELSE ToDigits(g.D)
        deg == IF g.mut = "no_deg" THEN <<>>
               ELSE IF g.style.upper THEN <<"D", "E", "G">> ELSE <<"d", "e", "g">>
        gap1 == IF g.mut = "no_gap" THEN <<>> ELSE Gap(k)
        mm == CASE g.mut = "no_minutes" -> <<>>
                [] g.mut = "frac_minutes" -> ToDigits(g.M) \o <<".", "5">>
                [] OTHER -> ToDigits(g.M)
        mmark == IF g.mut = "no_minmark" THEN <<>>
                 ELSE IF g.style.marks = "ascii" THEN <<"'">> ELSE <<"PRIME">>
        ss == CASE g.mut = "dot_nofrac" -> ToDigits(g.S.ip) \o <<".">>
                [] OTHER -> SecText(g.S)
        smark == IF g.mut = "no_secmark" THEN <<>>
                 ELSE IF g.style.marks = "ascii" THEN <<"\"">> ELSE <<"DPRIME">>
        sec == IF g.mut = "no_seconds" THEN <<>>
               ELSE ss \o Spaces(k) \o smark \o Gap(k)
        hh == CASE g.mut = "no_dir" -> <<>>
                [] g.mut = "bad_dir" -> <<"x">>
                [] OTHER -> <<g.H>>
        pre == CASE g.mut = "lead_x" -> <<"x">>
                 [] g.mut = "neg" -> <<"-">>
                 [] OTHER -> <<>>
        post == IF g.mut = "trail_x" THEN <<"x">> ELSE <<>>
    IN Spaces(k) \o pre \o dd \o Spaces(k) \o deg \o gap1
       \o mm \o Spaces(k) \o mmark \o Gap(k)
       \o sec \o hh \o post \o Spaces(k)

Gen(D, M, S, H, style, mut) ==
    [kind |-> "dms", D |-> D, M |-> M, S |-> S, H |-> H, style |-> style,
     mut |-> mut, raw |-> NoneVal]

PlainStyle == [pad |-> 0, marks |-> "ascii", upper |-> FALSE]

\* a value that is not written from DMS components
Raw(v) ==
    [kind |-> "raw", D |-> 0, M |-> 0, S |-> [ip |-> 0, fr |-> <<>>], H |-> "N",
     style |-> PlainStyle, mut |-> "none", raw |-> v]

WellFormedGens ==
    {Gen(D, M, S, H, st, "none") :
        D \in DegValues, M \in MinValues, S \in SecValues,
        H \in Hemispheres, st \in Styles}

MalformedGens ==
    {Gen(37, 36, [ip |-> 55, fr |-> <<5>>], H, st, mut) :
        H \in {"N", "w"}, st \in Styles, mut \in Mutations}

RawValues ==
    {NoneVal, NaNVal, Num(0), Num(37), Str(<<>>), Str(<<" ">>),
     Str(<<"3", "7">>)}

ValueOf(g) == IF g.kind = "raw" THEN g.raw ELSE Str(Write(g))

\* ------------------------------------------------------------------ state
VARIABLES
    pc,                 \* the position of the program
    df,                 \* the rows read from the input file
    result_df,          \* the filename column, then the table returned
    processed_results,  \* the rows process_row has returned so far
    idx,                \* the row apply is at
    lat_dms, lng_dms,   \* process_row: the two fields of the row
    lat, lng,           \* process_row: the two parsed values
    calls,              \* the calls of parse_dms and reverse_geocode so far
    escaped,            \* an exception left process_row
    dms_str,            \* a direct call of parse_dms: its argument
    gen,                \* what dms_str was written from
    ret                 \* a direct call of parse_dms: its outcome

vars == <<pc, df, result_df, processed_results, idx, lat_dms, lng_dms, lat, lng,
          calls, escaped, dms_str, gen, ret>>

batch_vars == <<df, result_df, processed_results, idx, lat_dms, lng_dms, lat,
                lng, calls, escaped>>

\* ------------------------------------------------------------------ rows
Address(prefix, m) == [prefix |-> prefix, msg |-> m]
NoCoordinates == Address("No coordinates available", NoMsg)

\* pd.Series({'address': ..., 'latitude': ..., 'longitude': ...})
Row(a, la, lo) == [address |-> a, latitude |-> la, longitude |-> lo]

\* row.get(key, ''): the field, or '' when the row has no such key
row_get(field) == IF field.kind = "absent" THEN Str(<<>>) ELSE field

\* a check that forgets the empty and the zero values
coordinates_missing_isna_only(la_dms, lo_dms) == isna(la_dms) \/ isna(lo_dms)

\* line 62: the fields for which process_row returns without parsing
coordinates_missing(la_dms, lo_dms) ==
    isna(la_dms) \/ isna(lo_dms) \/ ~truthy(la_dms) \/ ~truthy(lo_dms)

\* a handler that does not catch
process_row_catches_nothing(e) == FALSE

\* line 79: except Exception catches whatever parsing or the lookup raises
process_row_catches(e) == TRUE

\* a handler that reports the latitude parsed before the failure
except_row_keeps_latitude(e, la) == Row(Address("Error: ", e), la, NoneVal)

\* lines 80-84: the row of the handler; la is the latitude local at that time
except_row(e, la) == Row(Address("Error: ", e), NoneVal, NoneVal)

\* ------------------------------------------------------------------ the geocoder
\* one entry of the list reverse_geocode returns; has says whether it holds
\* the key 'formatted_address'
GeoResult(a) == [has |-> TRUE, formatted_address |-> a]
NoFieldResult == [has |-> FALSE, formatted_address |-> ""]

AddressA == "1 Infinite Loop, Cupertino, CA"
AddressB == "Main St"

\* what a call of gmaps_client.reverse_geocode may do
GeoReturns(rs) == [kind |-> "return", results |-> rs, msg |-> ""]
GeoRaises(m) == [kind |-> "raise", results |-> <<>>, msg |-> m]
NoBehaviour == [kind |-> "none", results |-> <<>>, msg |-> ""]

GeoBehaviours ==
    {GeoReturns(<<>>),
     GeoReturns(<<GeoResult(AddressA)>>),
     GeoReturns(<<GeoResult(AddressB), GeoResult(AddressA)>>),
     GeoReturns(<<NoFieldResult>>),
     GeoReturns(<<GeoResult(AddressA), NoFieldResult>>),
     GeoRaises("Timeout")}

Got(a) == [raised |-> FALSE, address |-> a, msg |-> NoMsg]
Failed(m) == [raised |-> TRUE, address |-> NoCoordinates, msg |-> m]

\* a check that asks for both coordinates to be missing
lookup_skipped_both(la, lo) == isna(la) /\ isna(lo)

\* line 45: the coordinates for which the geocoder is not called
lookup_skipped(la, lo) == isna(la) \/ isna(lo)

\* the last entry instead of the first
first_result_last(result) == result[Len(result)]

\* line 51: result[0]
first_result(result) == result[1]

\* a lookup without its try ... except
geocode_catches_nothing(e) == FALSE

\* line 53: except Exception around the lookup
geocode_catches(e) == TRUE

\* lines 48-54, given what the call of reverse_geocode does
get_address_from_coordinates(b, la, lo) ==
    LET tried ==
            IF b.kind = "raise" THEN Failed(Msg(b.msg, NoneVal))
            ELSE IF b.results # <<>>
                 THEN LET r == first_result(b.results)
                      IN IF r.has
                         THEN Got(Address("", Msg(r.formatted_address, NoneVal)))
                         ELSE Failed(Msg("'formatted_address'", NoneVal))
                 ELSE Got(Address("Address not found", NoMsg))
    IN IF lookup_skipped(la, lo) THEN Got(NoCoordinates)
       ELSE IF tried.raised /\ geocode_catches(tried.msg)
            THEN Got(Address("Error getting address: ", tried.msg))
            ELSE tried

\* one call of a collaborator, as the log keeps it
Call(fn, row, a1, a2, b, out, raised, done) ==
    [fn |-> fn, row |-> row, args |-> <<a1, a2>>, behaviour |-> b,
     out |-> out, raised |-> raised, rows_done |-> done]

\* ------------------------------------------------------------------ the batch
Record(f, la, lo) == [SourceFile |-> f, GPSLatitude |-> la, GPSLongitude |-> lo]

GoodNorth == Str(Write(Gen(37, 36, [ip |-> 55, fr |-> <<5>>], "N", PlainStyle, "none")))
GoodWest == Str(Write(Gen(122, 25, [ip |-> 9, fr |-> <<>>], "w",
                          [pad |-> 1, marks |-> "unicode", upper |-> TRUE], "none")))
BadNoSeconds == Str(Write(Gen(37, 36, [ip |-> 55, fr |-> <<5>>], "N", PlainStyle,
                              "no_seconds")))
BadTrailing == Str(Write(Gen(122, 25, [ip |-> 9, fr |-> <<>>], "W", PlainStyle,
                             "trail_x")))

SourceFiles == {"img1.jpg", "img2.jpg"}

\* a cell of a coordinate column of the file: empty (NaN), a number, DMS text
\* or other text; AbsentVal when the file has no such column
LatitudeCells == {AbsentVal, NaNVal, Num(37), GoodNorth, BadNoSeconds}
LongitudeCells == {AbsentVal, NaNVal, GoodWest, BadTrailing}

RECURSIVE SeqsUpTo(_, _)
SeqsUpTo(S, k) ==
    IF k = 0 THEN {<<>>}
    ELSE LET shorter == SeqsUpTo(S, k - 1)
         IN shorter \cup {Append(q, x) : q \in {r \in shorter : Len(r) = k - 1}, x \in S}

\* a column is in every row of the file or in none
ColumnsUniform(d) ==
    /\ (\A i \in 1..Len(d) : d[i].GPSLatitude = AbsentVal)
       \/ (\A i \in 1..Len(d) : d[i].GPSLatitude # AbsentVal)
    /\ (\A i \in 1..Len(d) : d[i].GPSLongitude = AbsentVal)
       \/ (\A i \in 1..Len(d) : d[i].GPSLongitude # AbsentVal)

FileRecords ==
    {Record(f, la, lo) : f \in SourceFiles, la \in LatitudeCells,
                         lo \in LongitudeCells}

Frames == {d \in SeqsUpTo(FileRecords, MaxRecords) : ColumnsUniform(d)}

\* a column taken in a different order
filename_column_reversed(d) ==
    [i \in 1..Len(d) |-> [filename |-> d[Len(d) + 1 - i].SourceFile]]

\* lines 120-121: df[['SourceFile']].copy().rename(columns={'SourceFile': 'filename'})
filename_column(d) == [i \in 1..Len(d) |-> [filename |-> d[i].SourceFile]]

\* line 127: pd.concat([result_df, processed_results], axis=1), row by row
concat(names, rows) ==
    [i \in 1..Len(names) |->
        [filename |-> names[i].filename, address |-> rows[i].address,
         latitude |-> rows[i].latitude, longitude |-> rows[i].longitude]]

Idle ==
    /\ lat_dms = NoneVal
    /\ lng_dms = NoneVal
    /\ lat = NoneVal
    /\ lng = NoneVal
    /\ calls = <<>>
    /\ escaped = FALSE
    /\ processed_results = <<>>
    /\ idx = 0

NoDirectCall ==
    /\ gen = Raw(NoneVal)
    /\ dms_str = NoneVal
    /\ ret = Return(NoneVal)

\* process_coordinates_file after pd.read_csv (line 110)
Init ==
    /\ pc = "read"
    /\ df \in Frames
    /\ result_df = <<>>
    /\ Idle
    /\ NoDirectCall

\* lines 119-121
PrepareResult ==
    /\ pc = "read"
    /\ result_df' = filename_column(df)
    /\ pc' = "apply"
    /\ UNCHANGED <<df, processed_results, idx, lat_dms, lng_dms, lat, lng, calls,
                   escaped, dms_str, gen, ret>>

\* line 124, then lines 59-60: apply calls process_row on the next row
RowGet ==
    /\ pc = "apply"
    /\ idx < Len(df)
    /\ idx' = idx + 1
    /\ lat_dms' = row_get(df[idx + 1].GPSLatitude)
    /\ lng_dms' = row_get(df[idx + 1].GPSLongitude)
    /\ lat' = NoneVal
    /\ lng' = NoneVal
    /\ pc' = "check"
    /\ UNCHANGED <<df, result_df, processed_results, calls, escaped, dms_str, gen,
                   ret>>

\* lines 62-67
CheckMissing ==
    /\ pc = "check"
    /\ IF coordinates_missing(lat_dms, lng_dms)
       THEN /\ processed_results' =
                   Append(processed_results, Row(NoCoordinates, NoneVal, NoneVal))
            /\ pc' = "apply"
       ELSE /\ pc' = "parse_lat"
            /\ UNCHANGED processed_results
    /\ UNCHANGED <<df, result_df, idx, lat_dms, lng_dms, lat, lng, calls, escaped,
                   dms_str, gen, ret>>

\* lines 79-84 when e is raised inside the try, or e leaving process_row
Raised(e) ==
    IF process_row_catches(e)
    THEN /\ processed_results' = Append(processed_results, except_row(e, lat))
         /\ pc' = "apply"
         /\ UNCHANGED escaped
    ELSE /\ escaped' = TRUE
         /\ pc' = "aborted"
         /\ UNCHANGED processed_results

\* line 69
ParseLat ==
    /\ pc = "parse_lat"
    /\ LET r == parse_dms(lat_dms)
       IN /\ calls' = Append(calls, Call("parse_dms", idx, lat_dms, NoneVal,
                                         NoBehaviour, r.value, r.raised,
                                         Len(processed_results)))
          /\ IF r.raised
             THEN Raised(r.msg) /\ UNCHANGED lat
             ELSE /\ lat' = r.value
                  /\ pc' = "parse_lng"
                  /\ UNCHANGED <<processed_results, escaped>>
    /\ UNCHANGED <<df, result_df, idx, lat_dms, lng_dms, lng, dms_str, gen, ret>>

\* line 70
ParseLng ==
    /\ pc = "parse_lng"
    /\ LET r == parse_dms(lng_dms)
       IN /\ calls' = Append(calls, Call("parse_dms", idx, lng_dms, NoneVal,
                                         NoBehaviour, r.value, r.raised,
                                         Len(processed_results)))
          /\ IF r.raised
             THEN Raised(r.msg) /\ UNCHANGED lng
             ELSE /\ lng' = r.value
                  /\ pc' = "lookup"
                  /\ UNCHANGED <<processed_results, escaped>>
    /\ UNCHANGED <<df, result_df, idx, lat_dms, lng_dms, lat, dms_str, gen, ret>>

\* lines 72-78 with lines 45-54: the lookup and the row returned
GetAddress ==
    /\ pc = "lookup"
    /\ \E b \in (IF lookup_skipped(lat, lng) THEN {NoBehaviour} ELSE GeoBehaviours) :
          LET r == get_address_from_coordinates(b, lat, lng)
          IN /\ calls' = IF lookup_skipped(lat, lng) THEN calls
                         ELSE Append(calls, Call("reverse_geocode", idx, lat, lng, b,
                                                 NoneVal, b.kind = "raise",
                                                 Len(processed_results)))
             /\ IF r.raised
                THEN Raised(r.msg)
                ELSE /\ processed_results' =
                            Append(processed_results, Row(r.address, lat, lng))
                     /\ pc' = "apply"
                     /\ UNCHANGED escaped
    /\ UNCHANGED <<df, result_df, idx, lat_dms, lng_dms, lat, lng, dms_str, gen, ret>>

\* lines 127-134, once apply has been through every row
Concat ==
    /\ pc = "apply"
    /\ idx = Len(df)
    /\ result_df' = concat(result_df, processed_results)
    /\ pc' = "done"
    /\ UNCHANGED <<df, processed_results, idx, lat_dms, lng_dms, lat, lng, calls,
                   escaped, dms_str, gen, ret>>

NextRow == RowGet \/ CheckMissing \/ ParseLat \/ ParseLng \/ GetAddress

Next == PrepareResult \/ NextRow \/ Concat

Spec == Init /\ [][Next]_vars

\* ------------------------------------------------------------------ process_row alone
BaseSeconds == [ip |-> 55, fr |-> <<5>>]

\* DMS texts that match the pattern
WellFormedTexts ==
    {GoodNorth, GoodWest,
     Str(Write(Gen(0, 75, [ip |-> 75, fr |-> <<>>], "s", PlainStyle, "none"))),
     Str(Write(Gen(122, 0, BaseSeconds, "E",
                   [pad |-> MaxPad, marks |-> "unicode", upper |-> FALSE], "none")))}

\* texts that do not match it: one defect each, blank text, a bare number as text
MalformedTexts ==
    {Str(Write(Gen(37, 36, BaseSeconds, "N", PlainStyle, mut))) : mut \in Mutations}
    \cup {BadTrailing, Str(<<" ">>), Str(<<"3", "7">>)}

\* what a row handed to process_row may hold under a coordinate key
RowValues ==
    {AbsentVal, NoneVal, NaNVal, Str(<<>>), Num(0), Num(37)}
    \cup WellFormedTexts \cup MalformedTexts

\* one call process_row(row, gmaps_client) on a row of any content
InitRow ==
    /\ pc = "apply"
    /\ \E la \in RowValues, lo \in RowValues : df = <<Record("img1.jpg", la, lo)>>
    /\ result_df = <<>>
    /\ Idle
    /\ NoDirectCall

SpecRow == InitRow /\ [][NextRow]_vars

\* ------------------------------------------------------------------ parse_dms alone
InitParse ==
    /\ pc = "parse_call"
    /\ gen \in WellFormedGens \cup MalformedGens \cup {Raw(v) : v \in RawValues}
    /\ dms_str = ValueOf(gen)
    /\ ret = Return(NoneVal)
    /\ df = <<>>
    /\ result_df = <<>>
    /\ Idle

CallParseDms ==
    /\ pc = "parse_call"
    /\ ret' = parse_dms(dms_str)
    /\ pc' = "parse_done"
    /\ UNCHANGED <<gen, dms_str>>
    /\ UNCHANGED batch_vars

NextParse == CallParseDms

SpecParse == InitParse /\ [][NextParse]_vars

\* ------------------------------------------------------------------ claims on parse_dms
WellFormed(g) == g.kind = "dms" /\ g.mut = "none"

\* sign(H): +1 for N and E, -1 for S and W, in either letter case
HemisphereSign(H) == IF H \in {"N", "n", "E", "e"} THEN 1 ELSE -1

\* S seconds as a multiple of 1/Scale
SecScaled(S) ==
    LET RECURSIVE Sum(_)
        Sum(k) == IF k = 0 THEN 0
                  ELSE S.fr[k] * Pow10(MaxFracDigits - k) + Sum(k - 1)
    IN S.ip * Scale + Sum(Len(S.fr))

\* C7: for every well-formed DMS string written from degrees D, minutes M,
\* seconds S and hemisphere H (M and S may be 60 or more, H in either case),
\* parse_dms returns sign(H) * (D + M/60 + S/3600); both sides are stated in
\* units of 1/(3600 * Scale) degree.
C7_ParseValue ==
    (pc = "parse_done" /\ WellFormed(gen)) =>
        ret = Return(Float(HemisphereSign(gen.H)
                           * (gen.D * 3600 * Scale + gen.M * 60 * Scale
                              + SecScaled(gen.S))))

C7_Witness ==
    /\ pc = "parse_done"
    /\ WellFormed(gen)
    /\ gen.M = 75 /\ gen.S.ip = 75 /\ Len(gen.S.fr) = MaxFracDigits
    /\ gen.H = "w" /\ gen.style.marks = "unicode" /\ gen.style.pad = MaxPad
    /\ ~ret.raised /\ ret.value.kind = "float" /\ ret.value.n < 0

\* C8 as stated: parse_dms returns None only for the null sentinel, and every
\* other input that is not a well-formed DMS string (a number included) fails
\* with the format error.
C8_Original ==
    pc = "parse_done" =>
        /\ (ret = Return(NoneVal)) <=> isna(dms_str)
        /\ (~isna(dms_str) /\ ~WellFormed(gen)) => ret.raised

\* C8 amended: parse_dms returns None, without error, exactly for the inputs
\* that are not strings (the null sentinel and non-text values such as a
\* number); every string that is not a well-formed DMS string (the empty
\* string, a string missing a token, a string with extra leading or trailing
\* characters) fails with the format error carrying the offending text.
C8_NullOnlyForNonText ==
    pc = "parse_done" =>
        /\ (ret = Return(NoneVal)) <=> (dms_str.kind # "str")
        /\ (dms_str.kind = "str" /\ ~WellFormed(gen)) =>
               ret = Raise(Msg("Invalid DMS format: ", dms_str))

C8_Witness ==
    /\ pc = "parse_done"
    /\ gen.kind = "dms" /\ gen.mut = "no_seconds"
    /\ ret.raised /\ ret.msg.arg = dms_str

\* ------------------------------------------------------------------ claims on process_row
\* row i has been returned
Finished(i) == i \in 1..Len(processed_results)

\* a coordinate field that is missing, empty or the null sentinel
FieldMissing(v) == v.kind \in {"absent", "none", "nan"} \/ v = Str(<<>>)

\* the positions of the log that hold the calls of fn made for row i
CallsOf(fn, i) == {k \in 1..Len(calls) : calls[k].fn = fn /\ calls[k].row = i}

NullPair(r) == r.latitude = NoneVal /\ r.longitude = NoneVal

\* C3: a record whose latitude or longitude field is missing, empty or the
\* null sentinel, whatever the other field holds, yields exactly
\* ("No coordinates available", null, null), and neither parse_dms nor
\* reverse_geocode is called for it.
C3_MissingShortCircuits ==
    \A i \in 1..Len(df) :
        (FieldMissing(df[i].GPSLatitude) \/ FieldMissing(df[i].GPSLongitude)) =>
            /\ \A k \in 1..Len(calls) : calls[k].row # i
            /\ Finished(i) =>
                   processed_results[i] = Row(NoCoordinates, NoneVal, NoneVal)

C3_Witness ==
    /\ Finished(1)
    /\ df[1].GPSLatitude \in MalformedTexts
    /\ df[1].GPSLongitude = Str(<<>>)
    /\ processed_results[1].address = NoCoordinates

\* the row of a record with malformed DMS text, as C4 describes it
ErrorRowFor(i) ==
    /\ processed_results[i].address.prefix = "Error: "
    /\ NullPair(processed_results[i])
    /\ CallsOf("reverse_geocode", i) = {}

HasMalformedText(rec) ==
    rec.GPSLatitude \in MalformedTexts \/ rec.GPSLongitude \in MalformedTexts

\* C4 as stated: every record whose latitude text or longitude text does not
\* match the DMS pattern yields an address beginning with "Error:", null
\* latitude and longitude, and no call of the geocoder.
C4_Original ==
    \A i \in 1..Len(df) :
        (Finished(i) /\ HasMalformedText(df[i])) => ErrorRowFor(i)

\* C4 amended: every record that passes the missing-coordinates check (neither
\* field is missing, empty, the null sentinel or the number zero) and whose
\* latitude text or longitude text does not match the DMS pattern yields an
\* address beginning with "Error:", null latitude and longitude (also when the
\* latitude parsed before the longitude failed), and no call of the geocoder.
C4_MalformedClearsBoth ==
    \A i \in 1..Len(df) :
        (/\ Finished(i)
         /\ HasMalformedText(df[i])
         /\ ~FieldMissing(df[i].GPSLatitude) /\ df[i].GPSLatitude # Num(0)
         /\ ~FieldMissing(df[i].GPSLongitude) /\ df[i].GPSLongitude # Num(0))
        => ErrorRowFor(i)

C4_Witness ==
    /\ Finished(1)
    /\ df[1].GPSLatitude = GoodNorth
    /\ df[1].GPSLongitude \in MalformedTexts
    /\ \E k \in CallsOf("parse_dms", 1) :
          calls[k].args[1] = GoodNorth /\ calls[k].out.kind = "float"
    /\ processed_results[1].address.prefix = "Error: "
    /\ processed_results[1].latitude = NoneVal

\* both fields of record i parsed to numbers: the two values, in call order
ParsedPair(i) ==
    LET ks == CallsOf("parse_dms", i)
        k1 == CHOOSE k \in ks : \A j \in ks : k <= j
        k2 == CHOOSE k \in ks : \A j \in ks : k >= j
    IN <<calls[k1].out, calls[k2].out>>

BothParse(rec) ==
    rec.GPSLatitude \in WellFormedTexts /\ rec.GPSLongitude \in WellFormedTexts

\* the lookup for record i failed: reverse_geocode raised, or the first entry
\* of what it returned has no formatted address
LookupFailed(b) ==
    \/ b.kind = "raise"
    \/ b.kind = "return" /\ b.results # <<>> /\ ~b.results[1].has

\* C5: when the lookup fails for a record whose latitude and longitude both
\* parse, the row's address begins with "Error getting address:" and its
\* latitude and longitude are the parsed values, not null.
C5_LookupFailureKeepsCoordinates ==
    \A i \in 1..Len(df) :
        (Finished(i) /\ BothParse(df[i])) =>
            \A k \in CallsOf("reverse_geocode", i) :
                LookupFailed(calls[k].behaviour) =>
                    /\ processed_results[i].address.prefix = "Error getting address: "
                    /\ processed_results[i].latitude = ParsedPair(i)[1]
                    /\ processed_results[i].longitude = ParsedPair(i)[2]
                    /\ processed_results[i].latitude.kind = "float"
                    /\ processed_results[i].longitude.kind = "float"

C5_Witness ==
    /\ Finished(1)
    /\ BothParse(df[1])
    /\ \E k \in CallsOf("reverse_geocode", 1) : calls[k].behaviour.kind = "raise"
    /\ processed_results[1].address = Address("Error getting address: ",
                                              Msg("Timeout", NoneVal))
    /\ processed_results[1].longitude.n < 0

\* C6: when both fields parse and the geocoder returns, the row carries the
\* parsed latitude and longitude, with the formatted address of the first
\* result when there is one and exactly "Address not found" when the result
\* set is empty.
C6_AddressOfFirstResult ==
    \A i \in 1..Len(df) :
        (Finished(i) /\ BothParse(df[i])) =>
            \A k \in CallsOf("reverse_geocode", i) :
                LET b == calls[k].behaviour
                    row == processed_results[i]
                IN (b.kind = "return" /\ ~LookupFailed(b)) =>
                    /\ row.latitude = ParsedPair(i)[1]
                    /\ row.longitude = ParsedPair(i)[2]
                    /\ row.latitude.kind = "float" /\ row.longitude.kind = "float"
                    /\ b.results # <<>> =>
                           row.address =
                               Address("", Msg(b.results[1].formatted_address, NoneVal))
                    /\ b.results = <<>> =>
                           row.address = Address("Address not found", NoMsg)

C6_Witness ==
    /\ Finished(1)
    /\ BothParse(df[1])
    /\ \E k \in CallsOf("reverse_geocode", 1) :
          /\ Len(calls[k].behaviour.results) = 2
          /\ calls[k].behaviour.results[1].formatted_address = AddressB
    /\ processed_results[1].address = Address("", Msg(AddressB, NoneVal))

\* the five shapes of a row
RowShapes(r) ==
    LET nums == r.latitude.kind = "float" /\ r.longitude.kind = "float"
    IN \/ r.address = NoCoordinates /\ NullPair(r)
       \/ r.address.prefix = "Error: " /\ NullPair(r)
       \/ r.address = Address("Address not found", NoMsg) /\ nums
       \/ r.address.prefix = "Error getting address: " /\ nums
       \/ r.address.prefix = "" /\ nums

\* C10: every row process_row returns has one of five shapes; in particular
\* latitude is null exactly when longitude is null, and "No coordinates
\* available" never comes with a non-null coordinate.
C10_FiveShapes ==
    \A i \in 1..Len(processed_results) :
        /\ RowShapes(processed_results[i])
        /\ (processed_results[i].latitude = NoneVal)
               <=> (processed_results[i].longitude = NoneVal)

\* ------------------------------------------------------------------ claims on the batch
\* C1: whatever the records hold and whatever the geocoder does on each, the
\* batch ends with exactly one output row per input record, in input order,
\* and output row i carries the SourceFile of input record i unchanged.
C1_RowPerRecord ==
    /\ pc # "aborted"
    /\ pc = "done" =>
        /\ Len(result_df) = Len(df)
        /\ \A i \in 1..Len(df) :
              /\ result_df[i].filename = df[i].SourceFile
              /\ Row(result_df[i].address, result_df[i].latitude,
                     result_df[i].longitude) = processed_results[i]

C1_Witness ==
    /\ pc = "done"
    /\ Len(df) = MaxRecords
    /\ df[1].SourceFile # df[Len(df)].SourceFile
    /\ result_df[1].filename = "img2.jpg"
    /\ result_df[1].address.prefix = "Error: "
    /\ \E k \in CallsOf("reverse_geocode", Len(df)) : calls[k].behaviour.kind = "raise"

\* a row with its three fields filled in
Populated(r) ==
    /\ r.address.prefix # "" \/ r.address.msg.text # ""
    /\ r.latitude.kind \in {"none", "float"}
    /\ r.longitude.kind \in {"none", "float"}

\* C2: process_row never raises to its caller: every call ends by returning a
\* populated row, whatever the record holds and whatever the geocoder does; so
\* a failure on one record neither changes the rows already returned nor keeps
\* apply from going on to the records after it.
C2_NeverRaises ==
    /\ [](/\ ~escaped
          /\ pc # "aborted"
          /\ pc = "apply" => Len(processed_results) = idx
          /\ \A i \in 1..Len(processed_results) : Populated(processed_results[i]))
    /\ [][/\ Len(processed_results') >= Len(processed_results)
          /\ \A i \in 1..Len(processed_results) :
                processed_results'[i] = processed_results[i]]_vars

C2_Witness ==
    /\ pc = "done"
    /\ Len(df) = MaxRecords
    /\ processed_results[1].address.prefix = "Error: "
    /\ processed_results[Len(df)].address.prefix = ""
    /\ \E k \in CallsOf("reverse_geocode", Len(df)) : calls[k].rows_done = Len(df) - 1

\* C9: records are processed one at a time in input order: reverse_geocode is
\* called at most once per record, only after both fields of that record have
\* parsed to numbers (which are its arguments), the calls follow input order,
\* and a call for a record is made only when the row of every earlier record
\* has been produced and no later one has.
C9_SequentialLookups ==
    /\ \A k \in 1..Len(calls) : \A j \in 1..k : calls[j].row <= calls[k].row
    /\ \A k \in 1..Len(calls) : calls[k].rows_done = calls[k].row - 1
    /\ \A i \in 1..Len(df) :
          /\ Cardinality(CallsOf("reverse_geocode", i)) <= 1
          /\ \A k \in CallsOf("reverse_geocode", i) :
                /\ \E k1, k2 \in CallsOf("parse_dms", i) :
                      /\ k1 < k2 /\ k2 < k
                      /\ ~calls[k1].raised /\ ~calls[k2].raised
                      /\ calls[k].args = <<calls[k1].out, calls[k2].out>>
                /\ calls[k].args[1].kind = "float"
                /\ calls[k].args[2].kind = "float"
                /\ \A j \in 1..(k - 1) :
                      calls[j].fn = "reverse_geocode" => calls[j].row < i

C9_Witness ==
    /\ pc = "done"
    /\ Len(df) = MaxRecords
    /\ \A i \in 1..Len(df) : Cardinality(CallsOf("reverse_geocode", i)) = 1

====
